---- MODULE Spec2Model ----
(***************************************************************************)
(* Model of src/script.js: a client-side catalog page that fetches one     *)
(* JSON feed (apps.json), renders app cards, filters them by a search box, *)
(* shows a detail modal and keeps a light/dark theme.  The file holds two  *)
(* revisions of the script; the later one (lines 353-730) is the one       *)
(* modelled, its declarations being the ones in force.                     *)
(*                                                                         *)
(* JavaScript strings the code inspects are sequences of one-character     *)
(* strings.  An absent (undefined) field is the sequence Undefined, a      *)
(* field holding a JSON number is the sequence NumberValue.                *)
(***************************************************************************)
EXTENDS Integers, Sequences, FiniteSets, TLC

VARIABLES
    pc,             \* position of the page script / of async init()
    response,       \* the Response fetch() resolved with
    sourceData,     \* let sourceData = null (line 524)
    assignCount,    \* number of assignments made to sourceData
    parseAttempted, \* whether JSON.parse has been called
    title,          \* #hero-title / #nav-brand-name / document.title
    grid,           \* #apps-grid
    gridBy,         \* who wrote #apps-grid last: the page, init or handleSearch
    appsCount,      \* #apps-count
    searchText,     \* value of #search-input
    modal,          \* #modal-overlay and the modal's fields
    uncaught,       \* handlers out of which an exception has escaped
    storedTheme,    \* localStorage item "theme"
    systemTheme,    \* matchMedia('(prefers-color-scheme: dark)')
    dataTheme,      \* attribute data-theme of <html>
    themeListeners, \* 'change' listeners registered on the media query
    toast,          \* message shown by #toast while it has class 'show'
    news            \* the news section: enriched items, chips, filter, grid

vars == <<pc, response, sourceData, assignCount, parseAttempted, title, grid,
          gridBy, appsCount, searchText, modal, uncaught, storedTheme, systemTheme,
          dataTheme, themeListeners, toast, news>>

catalogVars == <<pc, response, sourceData, assignCount, parseAttempted, title,
                 grid, gridBy, appsCount, searchText, modal, uncaught>>
themeVars == <<storedTheme, systemTheme, dataTheme, themeListeners>>

----------------------------------------------------------------------------
(* Bounds *)

\* longest text typed into the search box
MaxQueryLen == 2
\* longest news list of a feed
MaxNews == 3
\* largest mantissa m and largest shift k of the sizes m * 1024^k tried
MaxBytes == 2100
MaxShift == 3

----------------------------------------------------------------------------
(* JavaScript values and string primitives *)

Undefined == <<"undefined">>
NumberValue == <<"number">>

\* characters that can be typed into the search box
Chars == {"A", " "}

RECURSIVE StringsUpTo(_)
StringsUpTo(n) ==
    IF n = 0 THEN {<<>>}
    ELSE LET shorter == StringsUpTo(n - 1)
         IN  shorter \cup {Append(s, c) : s \in shorter, c \in Chars}

IsString(v) == v # Undefined /\ v # NumberValue

\* JavaScript truthiness of a field: undefined and "" are falsy, a non-zero
\* number and a non-empty string are truthy
Truthy(v) == v # Undefined /\ v # <<>>

LowerChar(c) ==
    CASE c = "A" -> "a"
      [] c = "B" -> "b"
      [] OTHER -> c

toLowerCase(s) == [i \in 1..Len(s) |-> LowerChar(s[i])]

IsWhiteSpace(c) == c = " "

RECURSIVE trimStart(_)
trimStart(s) ==
    IF s # <<>> /\ IsWhiteSpace(Head(s)) THEN trimStart(Tail(s)) ELSE s

RECURSIVE trimEnd(_)
trimEnd(s) ==
    IF s # <<>> /\ IsWhiteSpace(s[Len(s)])
    THEN trimEnd(SubSeq(s, 1, Len(s) - 1))
    ELSE s

trim(s) == trimEnd(trimStart(s))

startsWith(s, p) == Len(p) <= Len(s) /\ SubSeq(s, 1, Len(p)) = p

includes(s, q) ==
    \E i \in 0..(Len(s) - Len(q)) : SubSeq(s, i + 1, i + Len(q)) = q

\* String.prototype.replace(c, ''): removes the first occurrence of c
RECURSIVE removeFirst(_, _)
removeFirst(s, c) ==
    IF s = <<>> THEN <<>>
    ELSE IF Head(s) = c THEN Tail(s)
    ELSE <<Head(s)>> \o removeFirst(Tail(s), c)

----------------------------------------------------------------------------
(* Utility functions *)

\* Date parsing of the date strings that occur in the feeds: new Date(s)
\* never throws; an unparseable string gives the Invalid Date (time NaN).
InvalidDate == [valid |-> FALSE, year |-> 0, month |-> 1, day |-> 0]

NewDate(dateStr) ==
    CASE dateStr = "2024-01-05" -> [valid |-> TRUE, year |-> 2024, month |-> 1, day |-> 5]
      [] dateStr = "2023-11-20" -> [valid |-> TRUE, year |-> 2023, month |-> 11, day |-> 20]
      [] dateStr = "2023-03-09T10:00:00Z" -> [valid |-> TRUE, year |-> 2023, month |-> 3, day |-> 9]
      [] OTHER -> InvalidDate

MonthShort == <<"Jan", "Feb", "Mar", "Apr", "May", "Jun",
                "Jul", "Aug", "Sep", "Oct", "Nov", "Dec">>

\* Date.prototype.toLocaleDateString('en-US', {year: 'numeric', month:
\* 'short', day: 'numeric'}): "Invalid Date" for the Invalid Date; no throw
toLocaleDateString(date) ==
    IF date.valid
    THEN MonthShort[date.month] \o " " \o ToString(date.day) \o ", " \o ToString(date.year)
    ELSE "Invalid Date"

\* formatDate: the try block never throws, so its result is always that of
\* toLocaleDateString and the catch branch (return dateStr) is never taken
formatDate(dateStr) == toLocaleDateString(NewDate(dateStr))

\* A size is the number mant * 1024^shift (the product itself may exceed
\* the integers of the checker), or is absent from the version record.
Size(m, k) == [defined |-> TRUE, mant |-> m, shift |-> k]
NoSize == [defined |-> FALSE, mant |-> 0, shift |-> 0]

RECURSIVE Pow1024(_)
Pow1024(i) == IF i = 0 THEN 1 ELSE 1024 * Pow1024(i - 1)

\* Math.floor(Math.log(m) / Math.log(1024)) for m >= 1
RECURSIVE FloorLog1024(_)
FloorLog1024(m) == IF m < 1024 THEN 0 ELSE 1 + FloorLog1024(m \div 1024)

\* sizes[i] of ['B', 'KB', 'MB', 'GB']; an index past the table reads
\* undefined, which the concatenation prints as "undefined"
SizeUnit(i) ==
    IF i < 4 THEN <<"B", "KB", "MB", "GB">>[i + 1] ELSE "undefined"

\* x.toFixed(1) for x = m / d, in tenths: the nearest tenth, the larger of
\* two equally near ones
ToFixed1(m, d) == (20 * m + d) \div (2 * d)

\* the text of a number of tenths with its decimal always printed
TenthsWithDecimal(t) == ToString(t \div 10) \o "." \o ToString(t % 10)

\* parseFloat(x.toFixed(1)) concatenated to a string: "1.0" parses to 1
\* and prints as "1"
TenthsAsNumber(t) ==
    IF t % 10 = 0 THEN ToString(t \div 10) ELSE TenthsWithDecimal(t)

formatBytes(bytes) ==
    IF ~bytes.defined \/ bytes.mant = 0 THEN "0 B"
    ELSE LET j == FloorLog1024(bytes.mant)
             i == j + bytes.shift
         IN  TenthsAsNumber(ToFixed1(bytes.mant, Pow1024(j))) \o " " \o SizeUnit(i)

DefaultColor == <<"#", "a", "8">>

\* getAppColor: [throws, color]; app.tintColor.replace is not a function
\* when tintColor is a number
getAppColor(app) ==
    IF ~Truthy(app.tintColor) THEN [throws |-> FALSE, color |-> DefaultColor]
    ELSE IF ~IsString(app.tintColor) THEN [throws |-> TRUE, color |-> <<>>]
    ELSE [throws |-> FALSE, color |-> <<"#">> \o removeFirst(app.tintColor, "#")]

----------------------------------------------------------------------------
(* Feeds: the JSON documents the page may be served *)

Version(v, d, b) == [version |-> v, date |-> d, size |-> b]

AppRecord(id, n, dev, sub, desc, tint, vs) ==
    [bundleIdentifier |-> id, name |-> n, developerName |-> dev,
     subtitle |-> sub, localizedDescription |-> desc, tintColor |-> tint,
     versions |-> vs]

\* matches "a" by its name only; four versions, one with a bad date
AppA == AppRecord("org.a", <<"A", "b">>, <<"b">>, Undefined, Undefined,
                  <<"#", "f">>,
                  <<Version("4", "2024-01-05", Size(1536, 0)),
                    Version("3", "2023-11-20", Size(1, 2)),
                    Version("2", "not-a-date", Size(0, 0)),
                    Version("1", "2023-03-09T10:00:00Z", NoSize)>>)
\* contains no "a"; no versions
AppB == AppRecord("org.b", <<"b">>, <<"B">>, <<"b", "b">>, Undefined,
                  Undefined, <<>>)
\* matches "a" and "aa" by its description only; empty subtitle
AppD == AppRecord("org.d", <<"b">>, <<"B">>, <<>>, <<"a", "A">>,
                  <<"f">>, <<Version("9", "2023-11-20", Size(5, 3))>>)
\* matches "a" by developerName and by subtitle
AppE == AppRecord("org.e", <<"B">>, <<"a">>, <<"b", " ", "a">>, <<>>,
                  Undefined, <<Version("5", "not-a-date", Size(1023, 0))>>)
\* an app whose tintColor was written as a JSON number
AppC == AppRecord("org.c", <<"b">>, <<"b">>, Undefined, Undefined,
                  NumberValue, <<Version("7", "2024-01-05", Size(1, 1))>>)

\* result of JSON.parse: the literal null, or an object with an optional
\* name and an optional apps array
JSONNull == [isNull |-> TRUE, name |-> Undefined, hasApps |-> FALSE, apps |-> <<>>]

Feed(n, as) == [isNull |-> FALSE, name |-> n, hasApps |-> TRUE, apps |-> as]
FeedWithoutApps(n) == [isNull |-> FALSE, name |-> n, hasApps |-> FALSE, apps |-> <<>>]

Feeds ==
    { Feed(<<"a">>, <<AppA, AppB, AppD>>),
      Feed(Undefined, <<AppE, AppA>>),
      Feed(<<"a">>, <<>>),
      FeedWithoutApps(<<"a">>),
      Feed(<<"a">>, <<AppA, AppC>>),
      JSONNull }

AllApps == {AppA, AppB, AppC, AppD, AppE}
BundleIds == {a.bundleIdentifier : a \in AllApps} \cup {"org.none"}

Ids(apps) == [i \in 1..Len(apps) |-> apps[i].bundleIdentifier]

\* HTTP responses: status, the first characters of the body, and what
\* JSON.parse makes of the body.  kind names the way the load goes.
Response(k, isOk, body, doesParse, v) ==
    [kind |-> k, ok |-> isOk, text |-> body, parses |-> doesParse, value |-> v]

NoResponse == Response("none", FALSE, <<>>, FALSE, JSONNull)

Responses ==
    { Response("feed", TRUE, <<"{">>, TRUE, f) : f \in Feeds }
    \cup { Response("status", FALSE, <<"{">>, TRUE, Feed(<<"a">>, <<AppA>>)),
           Response("html", TRUE, <<"<", "!", "D">>, FALSE, JSONNull),
           Response("html", TRUE, <<" ", " ", "<", "!">>, FALSE, JSONNull),
           Response("html", TRUE, <<" ", "<", "h", "t", "m", "l">>, FALSE, JSONNull),
           Response("json", TRUE, <<"{", "a">>, FALSE, JSONNull),
           Response("json", TRUE, <<"<", "a">>, FALSE, JSONNull) }

----------------------------------------------------------------------------
(* Rendering *)

LatestVersion(app) == IF Len(app.versions) > 0 THEN <<app.versions[1]>> ELSE <<>>

\* renderAppCard: [throws, card]
renderAppCard(app) ==
    LET color == getAppColor(app)
        latest == LatestVersion(app)
    IN  IF color.throws THEN [throws |-> TRUE, card |-> <<>>]
        ELSE [throws |-> FALSE,
              card |-> [bundle |-> app.bundleIdentifier,
                        name |-> app.name,
                        version |-> IF latest # <<>> THEN latest[1].version ELSE "",
                        size |-> IF latest # <<>> THEN formatBytes(latest[1].size) ELSE "",
                        date |-> IF latest # <<>> /\ latest[1].date # ""
                                 THEN formatDate(latest[1].date) ELSE "",
                        color |-> color.color]]

InitialGrid == [kind |-> "initial", cards |-> <<>>]
EmptyState == [kind |-> "empty", cards |-> <<>>]
ErrorState == [kind |-> "error", cards |-> <<>>]

\* renderApps(apps): [throws, wrote, grid, count]: wrote tells whether
\* #apps-grid was written.  hasList is FALSE for !apps.
\* #apps-count is written before the cards are built, so it changes even
\* when a card throws; the grid then keeps its content.
renderApps(hasList, apps, oldGrid, oldCount) ==
    IF ~hasList \/ Len(apps) = 0
    THEN [throws |-> FALSE, wrote |-> TRUE, grid |-> EmptyState, count |-> 0]
    ELSE IF \E i \in 1..Len(apps) : renderAppCard(apps[i]).throws
    THEN [throws |-> TRUE, wrote |-> FALSE, grid |-> oldGrid, count |-> Len(apps)]
    ELSE [throws |-> FALSE, wrote |-> TRUE,
          grid |-> [kind |-> "cards",
                    cards |-> [i \in 1..Len(apps) |-> renderAppCard(apps[i]).card]],
          count |-> Len(apps)]

----------------------------------------------------------------------------
(* Theme management *)

getSystemTheme(prefersDark) == IF prefersDark THEN "dark" ELSE "light"

\* getStoredTheme() is "none" for the null localStorage.getItem returns
\* when nothing is stored
ThemeOnInit(stored, prefersDark) ==
    IF stored # "none" THEN stored ELSE getSystemTheme(prefersDark)

\* a 'change' listener that follows the system whatever is stored
ThemeAlwaysFollowsSystem(stored, current, matches) == getSystemTheme(matches)

\* the 'change' listener initTheme registers: follows the system only while
\* nothing is stored
ThemeOnSystemChange(stored, current, matches) ==
    IF stored = "none" THEN getSystemTheme(matches) ELSE current

NextTheme(current) == IF current = "dark" THEN "light" ELSE "dark"

\* initTheme(): applies the stored theme, else the system's, and registers
\* one more 'change' listener
initTheme ==
    /\ dataTheme' = ThemeOnInit(storedTheme, systemTheme)
    /\ themeListeners' = themeListeners + 1
    /\ UNCHANGED <<storedTheme, systemTheme>>

----------------------------------------------------------------------------
(* Search *)

\* the filter without its localizedDescription clause
MatchesQueryWithoutDescription(app, q) ==
    \/ includes(toLowerCase(app.name), q)
    \/ includes(toLowerCase(app.developerName), q)
    \/ (Truthy(app.subtitle) /\ includes(toLowerCase(app.subtitle), q))

MatchesQuery(app, q) ==
    \/ includes(toLowerCase(app.name), q)
    \/ includes(toLowerCase(app.developerName), q)
    \/ (Truthy(app.subtitle) /\ includes(toLowerCase(app.subtitle), q))
    \/ (Truthy(app.localizedDescription)
            /\ includes(toLowerCase(app.localizedDescription), q))

\* the query lower-cased but not trimmed
NormalizeQueryUntrimmed(query) == toLowerCase(query)

NormalizeQuery(query) == trim(toLowerCase(query))

FilterApps(apps, q) == SelectSeq(apps, LAMBDA app : MatchesQuery(app, q))

\* handleSearch(query): [throws, grid, count]
handleSearch(data, query, oldGrid, oldCount) ==
    IF data.isNull \/ ~data.hasApps
    THEN [throws |-> FALSE, wrote |-> FALSE, grid |-> oldGrid, count |-> oldCount]
    ELSE LET q == NormalizeQuery(query)
         IN  IF q = <<>>
             THEN renderApps(TRUE, data.apps, oldGrid, oldCount)
             ELSE renderApps(TRUE, FilterApps(data.apps, q), oldGrid, oldCount)

----------------------------------------------------------------------------
(* App detail modal *)

InitialModal == [active |-> FALSE, app |-> "", versionText |-> <<>>, versions |-> <<>>]

\* sourceData.apps.find(a => a.bundleIdentifier === bundleId): the first
\* match as a one-element sequence, <<>> for undefined
FindApp(apps, bundleId) ==
    LET hits == SelectSeq(apps, LAMBDA a : a.bundleIdentifier = bundleId)
    IN  IF hits = <<>> THEN <<>> ELSE <<hits[1]>>

\* the items written to #modal-versions for a non-empty versions array
VersionItems(versions) ==
    [i \in 1..Len(versions) |->
        [version |-> versions[i].version, latest |-> (i = 1),
         date |-> formatDate(versions[i].date),
         size |-> formatBytes(versions[i].size)]]

\* #modal-versions is rewritten only when the app has versions
ModalVersions(app, old) ==
    IF Len(app.versions) > 0 THEN VersionItems(app.versions) ELSE old

\* openAppDetail(bundleId): [throws, modal]
openAppDetail(data, bundleId, old) ==
    IF data.isNull THEN [throws |-> FALSE, modal |-> old]
    ELSE IF ~data.hasApps THEN [throws |-> TRUE, modal |-> old]
    ELSE LET found == FindApp(data.apps, bundleId)
         IN  IF found = <<>> THEN [throws |-> FALSE, modal |-> old]
             ELSE IF getAppColor(found[1]).throws THEN [throws |-> TRUE, modal |-> old]
             ELSE [throws |-> FALSE,
                   modal |-> [active |-> TRUE,
                              app |-> found[1].bundleIdentifier,
                              versionText |-> IF LatestVersion(found[1]) # <<>>
                                              THEN <<LatestVersion(found[1])[1].version,
                                                     formatBytes(LatestVersion(found[1])[1].size)>>
                                              ELSE <<>>,
                              versions |-> ModalVersions(found[1], old.versions)]]

----------------------------------------------------------------------------
(* Feed load: the try block of init() after the fetch *)

\* the HTML guard applied to the untrimmed body
looksLikeHTMLUntrimmed(text) ==
    \/ startsWith(text, <<"<", "!">>)
    \/ startsWith(text, <<"<", "h", "t", "m", "l">>)

looksLikeHTML(text) ==
    \/ startsWith(trimStart(text), <<"<", "!">>)
    \/ startsWith(trimStart(text), <<"<", "h", "t", "m", "l">>)

\* what the try block does with the body of an ok response: whether
\* JSON.parse was called, whether sourceData was assigned and with what,
\* the page title, the grid, the count, and whether it threw
LoadBody(resp, oldTitle, oldGrid, oldCount) ==
    LET unchanged == [parsed |-> FALSE, assigned |-> FALSE, data |-> JSONNull,
                      title |-> oldTitle, grid |-> oldGrid, count |-> oldCount,
                      thrown |-> TRUE]
    IN  IF looksLikeHTML(resp.text) THEN unchanged
        ELSE IF ~resp.parses THEN [unchanged EXCEPT !.parsed = TRUE]
        ELSE IF resp.value.isNull
        THEN [unchanged EXCEPT !.parsed = TRUE, !.assigned = TRUE]
        ELSE LET data == resp.value
                 r == renderApps(data.hasApps, data.apps, oldGrid, oldCount)
             IN  [parsed |-> TRUE, assigned |-> TRUE, data |-> data,
                  title |-> IF Truthy(data.name) THEN data.name ELSE oldTitle,
                  grid |-> r.grid, count |-> r.count, thrown |-> r.throws]

\* the catch block of init(): every error of the try block ends in the
\* 'Failed to load apps' state; nothing is rethrown
InitCatch(thrown, newGrid) ==
    [grid |-> IF thrown THEN ErrorState ELSE newGrid, escapes |-> FALSE]

----------------------------------------------------------------------------
(* The page *)

NoNews == [items |-> <<>>, chips |-> <<>>, filter |-> <<"all">>, shown |-> <<>>]

Init ==
    /\ pc = "start"
    /\ response = NoResponse
    /\ sourceData = JSONNull
    /\ assignCount = 0
    /\ parseAttempted = FALSE
    /\ title = Undefined
    /\ grid = InitialGrid
    /\ gridBy = "page"
    /\ appsCount = -1
    /\ searchText = <<>>
    /\ modal = InitialModal
    /\ uncaught = {}
    /\ storedTheme \in {"none", "light", "dark"}
    /\ systemTheme \in BOOLEAN
    /\ dataTheme = "none"
    /\ themeListeners = 0
    /\ toast = ""
    /\ news = NoNews

\* the script runs to its end: initTheme() (line 729) and the registration
\* of init for DOMContentLoaded
ScriptLoad ==
    /\ pc = "start"
    /\ pc' = "loaded"
    /\ initTheme
    /\ UNCHANGED <<response, sourceData, assignCount, parseAttempted, title, grid,
                   gridBy, appsCount, searchText, modal, uncaught, toast, news>>

\* DOMContentLoaded: init() up to its first await, the fetch
InitStart ==
    /\ pc = "loaded"
    /\ pc' = "fetching"
    /\ initTheme
    /\ UNCHANGED <<response, sourceData, assignCount, parseAttempted, title, grid,
                   gridBy, appsCount, searchText, modal, uncaught, toast, news>>

\* fetch() rejects: the catch block
FetchReject ==
    /\ pc = "fetching"
    /\ pc' = "failed"
    /\ grid' = InitCatch(TRUE, grid).grid
    /\ gridBy' = "init"
    /\ uncaught' = IF InitCatch(TRUE, grid).escapes THEN uncaught \cup {"init"} ELSE uncaught
    /\ UNCHANGED <<response, sourceData, assignCount, parseAttempted, title,
                   appsCount, searchText, modal, news, toast>>
    /\ UNCHANGED themeVars

\* fetch() resolves: a response that is not ok throws at once, otherwise
\* init awaits response.text()
FetchResolve(resp) ==
    /\ pc = "fetching"
    /\ response' = resp
    /\ IF resp.ok
       THEN /\ pc' = "reading"
            /\ UNCHANGED <<grid, gridBy, uncaught>>
       ELSE /\ pc' = "failed"
            /\ grid' = InitCatch(TRUE, grid).grid
            /\ gridBy' = "init"
            /\ uncaught' = IF InitCatch(TRUE, grid).escapes
                           THEN uncaught \cup {"init"} ELSE uncaught
    /\ UNCHANGED <<sourceData, assignCount, parseAttempted, title,
                   appsCount, searchText, modal, news, toast>>
    /\ UNCHANGED themeVars

\* response.text() rejects (the connection drops while the body is read);
\* the body never arrives, which the response's kind records
BodyReject ==
    /\ pc = "reading"
    /\ pc' = "failed"
    /\ response' = [response EXCEPT !.kind = "aborted"]
    /\ grid' = InitCatch(TRUE, grid).grid
    /\ gridBy' = "init"
    /\ uncaught' = IF InitCatch(TRUE, grid).escapes THEN uncaught \cup {"init"} ELSE uncaught
    /\ UNCHANGED <<sourceData, assignCount, parseAttempted, title,
                   appsCount, searchText, modal, news, toast>>
    /\ UNCHANGED themeVars

\* response.text() resolves: the rest of init()
BodyRead ==
    /\ pc = "reading"
    /\ LET r == LoadBody(response, title, grid, appsCount)
           c == InitCatch(r.thrown, r.grid)
       IN  /\ pc' = IF r.thrown THEN "failed" ELSE "done"
           /\ parseAttempted' = r.parsed
           /\ sourceData' = IF r.assigned THEN r.data ELSE sourceData
           /\ assignCount' = IF r.assigned THEN assignCount + 1 ELSE assignCount
           /\ title' = r.title
           /\ appsCount' = r.count
           /\ grid' = c.grid
           /\ gridBy' = "init"
           /\ uncaught' = IF c.escapes THEN uncaught \cup {"init"} ELSE uncaught
    /\ UNCHANGED <<response, searchText, modal, news, toast>>
    /\ UNCHANGED themeVars

\* init() has registered its listeners
Listening == pc \in {"fetching", "reading", "done", "failed"}

\* an 'input' handler that keeps the filtered list as the catalog
SearchInputKeepsFiltered(query) ==
    /\ Listening
    /\ searchText' = query
    /\ LET r == handleSearch(sourceData, query, grid, appsCount)
       IN  /\ grid' = r.grid
           /\ gridBy' = IF r.wrote THEN "handleSearch" ELSE gridBy
           /\ appsCount' = r.count
           /\ uncaught' = IF r.throws THEN uncaught \cup {"handleSearch"} ELSE uncaught
    /\ sourceData' = IF sourceData.isNull \/ ~sourceData.hasApps THEN sourceData
                     ELSE [sourceData EXCEPT
                              !.apps = FilterApps(sourceData.apps, NormalizeQuery(query))]
    /\ UNCHANGED <<pc, response, assignCount, parseAttempted, title,
                   modal, news, toast>>
    /\ UNCHANGED themeVars

\* 'input' on #search-input
SearchInput(query) ==
    /\ Listening
    /\ searchText' = query
    /\ LET r == handleSearch(sourceData, query, grid, appsCount)
       IN  /\ grid' = r.grid
           /\ gridBy' = IF r.wrote THEN "handleSearch" ELSE gridBy
           /\ appsCount' = r.count
           /\ uncaught' = IF r.throws THEN uncaught \cup {"handleSearch"} ELSE uncaught
    /\ UNCHANGED <<pc, response, sourceData, assignCount, parseAttempted, title,
                   modal, news, toast>>
    /\ UNCHANGED themeVars

\* a call of the global openAppDetail (the onclick of a card or of its GET
\* button, or any other caller)
OpenAppDetail(bundleId) ==
    /\ pc # "start"
    /\ LET r == openAppDetail(sourceData, bundleId, modal)
       IN  /\ modal' = r.modal
           /\ uncaught' = IF r.throws THEN uncaught \cup {"openAppDetail"} ELSE uncaught
    /\ UNCHANGED <<pc, response, sourceData, assignCount, parseAttempted, title,
                   grid, gridBy, appsCount, searchText, news, toast>>
    /\ UNCHANGED themeVars

\* click on the overlay or on #modal-close, or the Escape key
CloseModal ==
    /\ Listening
    /\ modal' = [modal EXCEPT !.active = FALSE]
    /\ UNCHANGED <<pc, response, sourceData, assignCount, parseAttempted, title,
                   grid, gridBy, appsCount, searchText, uncaught, news, toast>>
    /\ UNCHANGED themeVars

\* click on #theme-toggle
ToggleTheme ==
    /\ Listening
    /\ dataTheme' = NextTheme(dataTheme)
    /\ storedTheme' = NextTheme(dataTheme)
    /\ toast' = NextTheme(dataTheme)
    /\ UNCHANGED <<systemTheme, themeListeners, news>>
    /\ UNCHANGED catalogVars

\* the system colour scheme changes; every registered 'change' listener runs
SystemThemeChange ==
    /\ systemTheme' = ~systemTheme
    /\ dataTheme' = IF themeListeners > 0
                    THEN ThemeOnSystemChange(storedTheme, dataTheme, systemTheme')
                    ELSE dataTheme
    /\ UNCHANGED <<storedTheme, themeListeners, toast, news>>
    /\ UNCHANGED catalogVars

\* click on #copy-btn, up to the settling of clipboard.writeText: on
\* success or, through the textarea fallback, on failure the toast is
\* shown.  The button's own transient 'Copied!' label is not kept as state.
CopySourceURL(clipboardOk) ==
    /\ Listening
    /\ toast' = "copied"
    /\ UNCHANGED <<news>>
    /\ UNCHANGED catalogVars
    /\ UNCHANGED themeVars

\* the 2500 ms timer of showToast
ToastTimeout ==
    /\ toast # ""
    /\ toast' = ""
    /\ UNCHANGED <<news>>
    /\ UNCHANGED catalogVars
    /\ UNCHANGED themeVars

Queries == StringsUpTo(MaxQueryLen)

Next ==
    \/ ScriptLoad
    \/ InitStart
    \/ FetchReject
    \/ \E resp \in Responses : FetchResolve(resp)
    \/ BodyReject
    \/ BodyRead
    \/ \E query \in Queries : SearchInput(query)
    \/ \E bundleId \in BundleIds : OpenAppDetail(bundleId)
    \/ CloseModal
    \/ ToggleTheme
    \/ SystemThemeChange
    \/ \E clipboardOk \in BOOLEAN : CopySourceURL(clipboardOk)
    \/ ToastTimeout

Spec == Init /\ [][Next]_vars

----------------------------------------------------------------------------
(* News cross-referencing and filtering.  The script under src/ has no     *)
(* news code; this section follows sections 3 and 4.6 of the               *)
(* specification.  Group keys are sequences: an app's name, or the raw     *)
(* appID or the label General as one-element sequences.                    *)

NewsRecord(id, d) == [appID |-> id, date |-> d]

\* appID values of a news item: two apps of the catalog, an identifier of
\* no app, and "" for an item without appID
NewsAppIDs == {"org.a", "org.d", "org.x", ""}
NewsDates == {1, 2}
NewsRecords == {NewsRecord(id, d) : id \in NewsAppIDs, d \in NewsDates}

RECURSIVE NewsListsUpTo(_)
NewsListsUpTo(n) ==
    IF n = 0 THEN {<<>>}
    ELSE LET shorter == NewsListsUpTo(n - 1)
         IN  shorter \cup {Append(l, r) : l \in shorter, r \in NewsRecords}

AllKey == <<"all">>
GeneralLabel == <<"General">>

\* a filter group that ignores the catalog: the raw appID, else General
FilterGroupFromIdOnly(item, apps) ==
    IF item.appID # "" THEN <<item.appID>> ELSE GeneralLabel

\* the linked app's name if appID resolves, else the raw appID, else General
FilterGroup(item, apps) ==
    LET found == FindApp(apps, item.appID)
    IN  IF item.appID # "" /\ found # <<>> THEN found[1].name
        ELSE IF item.appID # "" THEN <<item.appID>>
        ELSE GeneralLabel

\* load-time enrichment of the news items
EnrichNews(items, apps) ==
    [i \in 1..Len(items) |->
        [appID |-> items[i].appID, date |-> items[i].date,
         filterGroup |-> FilterGroup(items[i], apps)]]

RECURSIVE DistinctInOrder(_, _)
DistinctInOrder(keys, seen) ==
    IF keys = <<>> THEN <<>>
    ELSE IF Head(keys) \in seen THEN DistinctInOrder(Tail(keys), seen)
    ELSE <<Head(keys)>> \o DistinctInOrder(Tail(keys), seen \cup {Head(keys)})

\* filterGroups: the "all" pseudo-group, then each group once, first seen first
filterGroups(items) ==
    <<AllKey>> \o DistinctInOrder([i \in 1..Len(items) |-> items[i].filterGroup], {})

\* stable insertion of an item into a list sorted by date descending
RECURSIVE InsertByDate(_, _)
InsertByDate(sorted, item) ==
    IF sorted = <<>> THEN <<item>>
    ELSE IF Head(sorted).date >= item.date
    THEN <<Head(sorted)>> \o InsertByDate(Tail(sorted), item)
    ELSE <<item>> \o sorted

RECURSIVE SortByDateDescending(_)
SortByDateDescending(items) ==
    IF items = <<>> THEN <<>>
    ELSE InsertByDate(SortByDateDescending(SubSeq(items, 1, Len(items) - 1)),
                      items[Len(items)])

\* renderNews(items, filter): the items of the group, newest first
renderNews(items, filter) ==
    SortByDateDescending(
        IF filter = AllKey THEN items
        ELSE SelectSeq(items, LAMBDA it : it.filterGroup = filter))

NewsCatalog == Feed(<<"a">>, <<AppA, AppB, AppD>>)

\* the page after a successful load of NewsCatalog with a news list
InitNews ==
    /\ pc = "done"
    /\ response = Response("feed", TRUE, <<"{">>, TRUE, NewsCatalog)
    /\ sourceData = NewsCatalog
    /\ assignCount = 1
    /\ parseAttempted = TRUE
    /\ title = NewsCatalog.name
    /\ grid = renderApps(TRUE, NewsCatalog.apps, InitialGrid, -1).grid
    /\ gridBy = "init"
    /\ appsCount = Len(NewsCatalog.apps)
    /\ searchText = <<>>
    /\ modal = InitialModal
    /\ uncaught = {}
    /\ storedTheme = "none"
    /\ systemTheme = FALSE
    /\ dataTheme = "light"
    /\ themeListeners = 2
    /\ toast = ""
    /\ \E list \in NewsListsUpTo(MaxNews) :
          LET items == EnrichNews(list, NewsCatalog.apps)
          IN  news = [items |-> items, chips |-> filterGroups(items),
                      filter |-> AllKey, shown |-> renderNews(items, AllKey)]

\* click on a filter chip
FilterNews(key) ==
    /\ pc = "done"
    /\ news' = [news EXCEPT !.filter = key, !.shown = renderNews(news.items, key)]
    /\ UNCHANGED <<toast>>
    /\ UNCHANGED catalogVars
    /\ UNCHANGED themeVars

NextNews == \E i \in 1..Len(news.chips) : FilterNews(news.chips[i])

SpecNews == InitNews /\ [][NextNews]_vars

----------------------------------------------------------------------------
(* Sizes: the page after loading a feed of one app with one version, whose *)
(* size ranges over the sizes tried                                        *)

\* mantissas around 1024^2, where a size rounds up to 1024.0 KB
NearMega == (Pow1024(2) - 60)..(Pow1024(2) + 60)

SizeInputs ==
    {NoSize} \cup {Size(m, k) : m \in (0..MaxBytes) \cup NearMega, k \in 0..MaxShift}

SizedApp(b) ==
    AppRecord("org.s", <<"b">>, <<"b">>, Undefined, Undefined, Undefined,
              <<Version("1", "2024-01-05", b)>>)

InitBytes ==
    \E b \in SizeInputs :
        LET feed == Feed(<<"a">>, <<SizedApp(b)>>)
        IN  /\ pc = "done"
            /\ response = Response("feed", TRUE, <<"{">>, TRUE, feed)
            /\ sourceData = feed
            /\ assignCount = 1
            /\ parseAttempted = TRUE
            /\ title = feed.name
            /\ grid = renderApps(TRUE, feed.apps, InitialGrid, -1).grid
            /\ gridBy = "init"
            /\ appsCount = 1
            /\ searchText = <<>>
            /\ modal = InitialModal
            /\ uncaught = {}
            /\ storedTheme = "none"
            /\ systemTheme = FALSE
            /\ dataTheme = "light"
            /\ themeListeners = 2
            /\ toast = ""
            /\ news = NoNews

NextBytes ==
    \/ OpenAppDetail("org.s")
    \/ CloseModal

SpecBytes == InitBytes /\ [][NextBytes]_vars

----------------------------------------------------------------------------
(* Properties *)

Min(a, b) == IF a < b THEN a ELSE b

\* bundle identifiers of the cards in the grid, in order
Shown(g) == [i \in 1..Len(g.cards) |-> g.cards[i].bundle]

\* the apps of the catalog, in feed order (none while nothing is loaded or
\* when the feed has no apps array)
Catalog == IF sourceData.isNull \/ ~sourceData.hasApps THEN <<>> ELSE sourceData.apps

Finished == pc \in {"done", "failed"}

\* C1: when the fetch rejects, the status is not ok, the trimmed body starts
\* with an HTML doctype or root tag, or the body is not valid JSON, init
\* ends with the 'Failed to load apps' state in the grid and no exception
\* escapes init; an HTML body is rejected without a call of JSON.parse.
C1_FailedLoadShowsError ==
    (Finished /\ response.kind \in {"none", "status", "html", "json"})
        => /\ pc = "failed"
           /\ grid = ErrorState
           /\ "init" \notin uncaught
           /\ (response.kind = "html" => ~parseAttempted)

\* an HTML page served after leading whitespace has been rejected
C1_Witness ==
    /\ pc = "failed"
    /\ response.kind = "html"
    /\ Head(response.text) = " "
    /\ grid = ErrorState
    /\ ~parseAttempted

\* C2: once init has ended in the error state, the grid never shows app
\* cards and no detail view is opened, whatever is searched or opened later.
C2_NoPartialCatalog ==
    pc = "failed" => (grid.kind # "cards" /\ ~modal.active)

\* q occurs, compared case-insensitively, in one of the four text fields
FieldContains(field, q) ==
    IsString(field) /\ includes(toLowerCase(field), toLowerCase(q))

AppContains(app, q) ==
    \/ FieldContains(app.name, q)
    \/ FieldContains(app.developerName, q)
    \/ FieldContains(app.subtitle, q)
    \/ FieldContains(app.localizedDescription, q)

\* the grid shows exactly the apps of the catalog that contain q
SoundAndComplete(q) ==
    /\ \A i \in 1..Len(Shown(grid)) :
          \E j \in 1..Len(Catalog) :
              /\ Catalog[j].bundleIdentifier = Shown(grid)[i]
              /\ AppContains(Catalog[j], q)
    /\ \A j \in 1..Len(Catalog) :
          AppContains(Catalog[j], q)
              => \E i \in 1..Len(Shown(grid)) : Shown(grid)[i] = Catalog[j].bundleIdentifier

\* the grid holds what handleSearch made of the text of the search box
SearchApplied == pc = "done" /\ gridBy = "handleSearch"

\* C3 as stated: the apps shown by handleSearch(q) are exactly those that
\* have q itself, compared case-insensitively, as a substring of a field.
C3_SearchExactForRawQuery == SearchApplied => SoundAndComplete(searchText)

\* C3: for every loaded feed and query q, the apps shown by handleSearch(q)
\* are exactly the apps that have q, stripped of leading and trailing white
\* space and compared case-insensitively, as a substring of at least one of
\* name, developerName, subtitle, localizedDescription.
C3_SearchExactForTrimmedQuery == SearchApplied => SoundAndComplete(trim(searchText))

\* a query with a trailing blank has selected two of three apps
C3_Witness ==
    /\ SearchApplied
    /\ searchText = <<"A", " ">>
    /\ Len(Catalog) = 3
    /\ Len(Shown(grid)) = 2

\* C4: for every loaded feed, handleSearch with an empty or blank query
\* shows the full app list in feed order, whatever was searched before.
C4_BlankQueryShowsAll ==
    (SearchApplied /\ \A i \in 1..Len(searchText) : searchText[i] = " ")
        => Shown(grid) = Ids(Catalog)

\* a blank query has brought back all three apps
C4_Witness ==
    /\ SearchApplied
    /\ searchText = <<" ">>
    /\ Len(Catalog) = 3
    /\ Shown(grid) = Ids(Catalog)

\* no app of the catalog has this bundle identifier
LookupMiss(bundleId) ==
    \A j \in 1..Len(Catalog) : Catalog[j].bundleIdentifier # bundleId

\* C5: before a feed is loaded and after a successful load, openAppDetail
\* with an identifier of no app raises no error and leaves the modal, its
\* contents and its open/closed state as they were.
C5_LookupMissIsNoOp ==
    [][\A bundleId \in BundleIds :
          (pc # "failed" /\ LookupMiss(bundleId) /\ OpenAppDetail(bundleId))
              => (modal' = modal /\ uncaught' = uncaught)]_vars

\* C6: sourceData is assigned at most once, by init while it loads the
\* feed, and no later event changes it.
C6_CatalogWriteOnce ==
    [][/\ assignCount' <= 1
       /\ (assignCount' # assignCount => pc = "reading")
       /\ (assignCount = 1 => sourceData' = sourceData)
       /\ (Finished => sourceData' = sourceData)]_vars

\* a loaded catalog after a search, an opened detail view and a toast
C6_Witness ==
    /\ assignCount = 1
    /\ gridBy = "handleSearch"
    /\ Len(Shown(grid)) = 1
    /\ modal.active
    /\ toast = "copied"
    /\ Len(sourceData.apps) = 3

\* C7: once initTheme has run, data-theme is the stored theme whenever one
\* is stored and the current system preference while none is stored.
C7_ThemeFollowsStoredElseSystem ==
    pc # "start" =>
        dataTheme = IF storedTheme # "none" THEN storedTheme
                    ELSE IF systemTheme THEN "dark" ELSE "light"

\* the user has chosen light and the system has since turned dark
C7_Witness ==
    /\ storedTheme = "light"
    /\ toast = "light"
    /\ systemTheme
    /\ dataTheme = "light"

\* and the system's theme is followed while nothing is stored
C7_WitnessSystem ==
    /\ pc = "done"
    /\ storedTheme = "none"
    /\ dataTheme = "dark"

\* the app the modal shows, as a sequence of at most one catalog record
ModalApp == FindApp(Catalog, modal.app)

\* C8: opening an app with T versions shows min(3, T) of them (the first
\* page of the version list).
C8_FirstPageOfVersions ==
    (modal.active /\ ModalApp # <<>>)
        => Len(modal.versions) = Min(3, Len(ModalApp[1].versions))

\* the group section 3 of the specification gives a news item
ExpectedGroup(item) ==
    IF \E j \in 1..Len(Catalog) : Catalog[j].bundleIdentifier = item.appID
    THEN (CHOOSE a \in {Catalog[j] : j \in 1..Len(Catalog)} :
              a.bundleIdentifier = item.appID).name
    ELSE IF item.appID # "" THEN <<item.appID>>
    ELSE <<"General">>

\* index of the first news item of a group
FirstSeen(group) ==
    CHOOSE i \in 1..Len(news.items) :
        /\ news.items[i].filterGroup = group
        /\ \A k \in 1..(i - 1) : news.items[k].filterGroup # group

Occurrences(list, x) == Cardinality({i \in 1..Len(list) : list[i] = x})

\* C9: each news item's filter group is its app's name if appID resolves,
\* else the raw appID, else General; the chips are "all" followed by the
\* distinct groups in first-seen order without duplicates; the items shown
\* for a group key are exactly the items of that group, by date descending.
C9_NewsGroupsAndFilter ==
    /\ \A i \in 1..Len(news.items) :
          news.items[i].filterGroup = ExpectedGroup(news.items[i])
    /\ Len(news.chips) >= 1 /\ news.chips[1] = <<"all">>
    /\ {news.chips[i] : i \in 2..Len(news.chips)}
          = {news.items[i].filterGroup : i \in 1..Len(news.items)}
    /\ \A i, j \in 2..Len(news.chips) :
          i < j => (news.chips[i] # news.chips[j]
                        /\ FirstSeen(news.chips[i]) < FirstSeen(news.chips[j]))
    /\ \A x \in {news.items[i] : i \in 1..Len(news.items)} :
          Occurrences(news.shown, x)
              = IF news.filter = <<"all">> \/ x.filterGroup = news.filter
                THEN Occurrences(news.items, x) ELSE 0
    /\ \A i \in 1..Len(news.shown) :
          \E k \in 1..Len(news.items) : news.items[k] = news.shown[i]
    /\ \A i, j \in 1..Len(news.shown) :
          i < j => news.shown[i].date >= news.shown[j].date

\* items of two apps and an unlinked one, filtered by the first app, whose
\* two items are shown newest first, the reverse of their feed order
C9_Witness ==
    /\ news.chips = <<<<"all">>, AppA.name, <<"General">>>>
    /\ news.filter = AppA.name
    /\ Len(news.items) = 3
    /\ news.items[1].appID = "org.a" /\ news.items[1].date = 1
    /\ Len(news.shown) = 2
    /\ news.shown[1].date = 2 /\ news.shown[2].date = 1

\* C10: formatDate returns an input it cannot parse unchanged: a version
\* whose date does not parse is shown with the date string of the feed.
C10_UnparseableDateUnchanged ==
    (modal.active /\ ModalApp # <<>> /\ Len(ModalApp[1].versions) > 0)
        => \A i \in 1..Len(modal.versions) :
              ~NewDate(ModalApp[1].versions[i].date).valid
                  => modal.versions[i].date = ModalApp[1].versions[i].date

\* C12: the version list of the modal is exactly the versions, in feed
\* order, of the app opened last (empty when that app has no versions).
C12_VersionsOfOpenedApp ==
    (modal.app # "" /\ ModalApp # <<>>)
        => [i \in 1..Len(modal.versions) |-> modal.versions[i].version]
              = [i \in 1..Len(ModalApp[1].versions) |-> ModalApp[1].versions[i].version]

\* C13: once the feed has loaded, the grid shows exactly the apps that
\* match the current text of the search box, also when that text was typed
\* while the fetch was in flight.
C13_GridMatchesSearchBox ==
    pc = "done" => SoundAndComplete(trim(searchText))

\* the size of the only version of the only app of the catalog
ShownSize == Catalog[1].versions[1].size

\* i with 1024^i <= n < 1024^(i+1) for n = mant * 1024^shift
Magnitude(b) ==
    b.shift + (CHOOSE j \in 0..3 : Pow1024(j) <= b.mant /\ b.mant < Pow1024(j + 1))

\* the number of tenths nearest to n / 1024^i, the larger of two equally near
NearestTenths(b) ==
    LET d == Pow1024(Magnitude(b) - b.shift)
        low == (10 * b.mant) \div d
    IN  CHOOSE t \in {low, low + 1} :
            2 * t * d - d <= 20 * b.mant /\ 20 * b.mant < 2 * t * d + d

OneDecimal(t) == ToString(t \div 10) \o "." \o ToString(t % 10)

UnitTable == <<"B", "KB", "MB", "GB">>

\* the texts of the size in the card and, once opened, in the modal
SizeTextsAre(text) ==
    /\ grid.cards[1].size = text
    /\ modal.active => (modal.versionText[2] = text /\ modal.versions[1].size = text)

\* C11 as stated: "0 B" for a zero or missing size; for a positive n the
\* value n / 1024^i rounded to one decimal place, always printed with that
\* decimal (1048576 gives "1.0 MB"), a space and the i-th unit, i being
\* floor(log1024(n)) and the unit always one of B, KB, MB, GB.
C11_OneDecimalAndTableUnit ==
    IF ~ShownSize.defined \/ ShownSize.mant = 0 THEN SizeTextsAre("0 B")
    ELSE /\ Magnitude(ShownSize) < 4
         /\ SizeTextsAre(OneDecimal(NearestTenths(ShownSize)) \o " "
                            \o UnitTable[Magnitude(ShownSize) + 1])

\* C11: "0 B" for a zero or missing size; for a positive n the value
\* n / 1024^i rounded to one decimal place and printed as a number, so
\* without a trailing ".0" (1536 gives "1.5 KB", 1048576 gives "1 MB"), a
\* space and the unit, which is the i-th of B, KB, MB, GB for n < 1024^4
\* and the text "undefined" from 1024^4 on.
C11_RoundedNumberAndUnit ==
    /\ IF ~ShownSize.defined \/ ShownSize.mant = 0 THEN SizeTextsAre("0 B")
       ELSE LET t == NearestTenths(ShownSize)
                i == Magnitude(ShownSize)
            IN  SizeTextsAre(
                    (IF t % 10 = 0 THEN ToString(t \div 10) ELSE OneDecimal(t))
                    \o " " \o (IF i < 4 THEN UnitTable[i + 1] ELSE "undefined"))
    /\ ShownSize = Size(1536, 0) => SizeTextsAre("1.5 KB")
    /\ ShownSize = Size(1, 2) => SizeTextsAre("1 MB")
    /\ ShownSize = Size(1024, 3) => SizeTextsAre("1 undefined")

\* a size of 1048576 bytes is shown in the card and in the opened modal
C11_Witness ==
    /\ ShownSize = Size(1, 2)
    /\ modal.active
    /\ grid.cards[1].size = "1 MB"
    /\ modal.versionText = <<"1", "1 MB">>

====
